---------------------------- MODULE Spec2Model ----------------------------
(***************************************************************************)
(* A model of the paper pipeline of daily-arXiv-Lark-Bot:                  *)
(*   src/lark_bot/arxiv_paper.py  the filters, the two deduplicators, the  *)
(*                                translation stage and the record store   *)
(*   src/lark_bot/lark_table.py   the hand-off to the Lark table           *)
(* A paper is a record (a Python dict); a list is a sequence.  A paper id  *)
(* is a number standing for an arXiv id string.                            *)
(***************************************************************************)
EXTENDS Integers, Sequences, FiniteSets, TLC

VARIABLES
    pc,            \* the position of the running call or of the driver
    papers,        \* the list named `papers` in the running call
    keyword_list,  \* filter_papers_by_keyword's second argument
    results,       \* the list the running call builds or has returned
    idx,           \* the position of a `for paper in papers` loop (1-based)
    replies,       \* what the external calls of the running call answered
    error,         \* the exception or the failure that ended the call (or None)
    store,         \* the record store file: [exists, text]
    store0,        \* the record store file before the first call
    data,          \* prepend_to_json_file's second argument
    content,       \* the local `content`: the entries the running call read
    written,       \* every batch prepend_to_json_file has written, newest first
    base_url,      \* the environment's LARK_TABLE_BASE_URL, as urlparse sees it
    dest,          \* push_results_to_lark_table's locals app_token, table_id
    rows,          \* the rows the table service has created in this run
    create_calls,  \* the record-creation requests sent in this run
    exit_status    \* the process's exit status (-1 while it runs)

vars == <<pc, papers, keyword_list, results, idx, replies, error, store, store0,
          data, content, written, base_url, dest, rows, create_calls, exit_status>>

-----------------------------------------------------------------------------
(* Bounds of the model *)

NumIds == 2
MaxPapers == 3
MaxInputChars == 4
MaxKeywords == 2
MaxFilterPapers == 2

-----------------------------------------------------------------------------
(* Values *)

None == "None"

Ids == 1..NumIds

\* Two abstracts, so that two papers with one id can still differ.
Summaries == {"s1", "s2"}

PaperPool == [id : Ids, summary : Summaries]

RECURSIVE SeqsUpTo(_, _)
SeqsUpTo(S, n) ==
    IF n = 0 THEN {<<>>}
    ELSE LET shorter == SeqsUpTo(S, n - 1)
         IN  shorter \cup {Append(s, x) : s \in {t \in shorter : Len(t) = n - 1}, x \in S}

ToSet(s) == {s[i] : i \in DOMAIN s}

NoFile == [exists |-> FALSE, text |-> <<>>]

\* What a specification does not use.
IdleStore ==
    /\ store = NoFile
    /\ store0 = NoFile
    /\ data = <<>>
    /\ content = <<>>
    /\ written = <<>>

IdleCalls ==
    /\ replies = <<>>
    /\ error = None

\* LARK_TABLE_BASE_URL is not set: os.getenv gives None
UnsetUrl == [set |-> FALSE, path |-> <<>>, table |-> None]

NoDest == [app_token |-> None, table_id |-> None]

\* exit_status is -1 while the process runs
IdlePush ==
    /\ base_url = UnsetUrl
    /\ dest = NoDest
    /\ rows = <<>>
    /\ create_calls = <<>>
    /\ exit_status = -1

storeVars == <<store, store0, data, content, written>>
callVars == <<replies, error>>
pushVars == <<base_url, dest, rows, create_calls, exit_status>>

-----------------------------------------------------------------------------
(* deduplicate_papers_across_categories *)

RECURSIVE DedupLoop(_, _, _, _)
DedupLoop(ps, i, papers_id, deduplicated_papers) ==
    IF i > Len(ps) THEN deduplicated_papers
    ELSE IF ps[i].id \notin papers_id
         THEN DedupLoop(ps, i + 1, papers_id \cup {ps[i].id},
                        Append(deduplicated_papers, ps[i]))
         ELSE DedupLoop(ps, i + 1, papers_id, deduplicated_papers)

\* A bug: the paper kept for an id is the one at its last occurrence.
RECURSIVE DedupKeepLast(_)
DedupKeepLast(ps) ==
    IF ps = <<>> THEN <<>>
    ELSE IF \E j \in 2..Len(ps) : ps[j].id = ps[1].id
         THEN DedupKeepLast(Tail(ps))
         ELSE <<ps[1]>> \o DedupKeepLast(Tail(ps))

\* A bug: papers_id.add is left out, so every paper is new.
DedupForgetsSeen(ps) == ps

deduplicate_papers_across_categories(ps) == DedupLoop(ps, 1, {}, <<>>)

InitDedupCat ==
    /\ pc = "call"
    /\ papers \in SeqsUpTo(PaperPool, MaxPapers)
    /\ keyword_list = <<>>
    /\ results = <<>>
    /\ idx = 0
    /\ IdleCalls
    /\ IdleStore
    /\ IdlePush

CallDedupCat ==
    /\ pc = "call"
    /\ results' = deduplicate_papers_across_categories(papers)
    /\ pc' = "returned"
    /\ UNCHANGED <<papers, keyword_list, idx, callVars, storeVars, pushVars>>

NextDedupCat == CallDedupCat

SpecDedupCat == InitDedupCat /\ [][NextDedupCat]_vars

\* The positions of ps that hold the first occurrence of their id.
FirstOccurrences(ps) ==
    {k \in DOMAIN ps : \A j \in 1..(k - 1) : ps[j].id # ps[k].id}

\* The n-th smallest element of a set of numbers.
NthOf(S, n) == CHOOSE x \in S : Cardinality({y \in S : y <= x}) = n

\* The elements of ps at the positions K, in order.
SubseqAt(ps, K) ==
    LET D == K \cap DOMAIN ps
    IN  [n \in 1..Cardinality(D) |-> ps[NthOf(D, n)]]

\* C1: deduplicate_papers_across_categories returns each id of its input
\* exactly once, the paper kept for an id is the one at the id's first
\* occurrence, and the kept papers are in the order of their first
\* occurrences (the empty list and repeated ids included).
C1_DedupKeepsFirstOccurrences ==
    pc = "returned" =>
        LET F == FirstOccurrences(papers)
        IN  /\ Len(results) = Cardinality(F)
            /\ \A k \in DOMAIN results : results[k] = papers[NthOf(F, k)]
            /\ \A i \in {p.id : p \in ToSet(papers)} :
                   Cardinality({k \in DOMAIN results : results[k].id = i}) = 1

\* An id occurs three times, with different papers, and another id between.
C1_Witness ==
    /\ pc = "returned"
    /\ Len(papers) = 3
    /\ papers[1].id = papers[3].id
    /\ papers[1] # papers[3]
    /\ papers[2].id # papers[1].id
    /\ results = <<papers[1], papers[2]>>

-----------------------------------------------------------------------------
(* filter_papers_by_keyword.  Here a text (an abstract, a keyword) is a    *)
(* sequence of characters.                                                 *)

Whitespace == {" "}
Alphabet == {"a", "A", " "}

\* str.lower, one character
LowerChar(c) == IF c = "A" THEN "a" ELSE c

lower(s) == [i \in DOMAIN s |-> LowerChar(s[i])]

\* str.split(): the maximal runs of non-whitespace characters, in order
RECURSIVE SplitLoop(_, _, _, _)
SplitLoop(s, i, word, words) ==
    IF i > Len(s)
    THEN IF word = <<>> THEN words ELSE Append(words, word)
    ELSE IF s[i] \in Whitespace
         THEN SplitLoop(s, i + 1, <<>>,
                        IF word = <<>> THEN words ELSE Append(words, word))
         ELSE SplitLoop(s, i + 1, Append(word, s[i]), words)

split(s) == SplitLoop(s, 1, <<>>, <<>>)

\* `x in s` for two texts: x is a substring of s
Contains(s, x) ==
    \E i \in 1..(Len(s) + 1) :
        /\ i + Len(x) - 1 <= Len(s)
        /\ SubSeq(s, i, i + Len(x) - 1) = x

\* A bug (the variant the source keeps in a comment): substring matching.
FilterBySubstring(ps, kws) ==
    SelectSeq(ps, LAMBDA paper :
        \E k \in DOMAIN kws : Contains(lower(paper.summary), lower(kws[k])))

filter_papers_by_keyword(ps, kws) ==
    LET keyword_set == {lower(kws[k]) : k \in DOMAIN kws}
    IN  SelectSeq(ps, LAMBDA paper :
            keyword_set \cap ToSet(split(lower(paper.summary))) # {})

Texts(n) == SeqsUpTo(Alphabet, n)

\* The lists of at most k texts that have at most n characters in all.
RECURSIVE TextLists(_, _)
TextLists(k, n) ==
    IF k = 0 THEN {<<>>}
    ELSE {<<>>} \cup
         UNION {{<<t>> \o rest : rest \in TextLists(k - 1, n - Len(t))} : t \in Texts(n)}

RECURSIVE Chars(_)
Chars(texts) == IF texts = <<>> THEN 0 ELSE Len(texts[1]) + Chars(Tail(texts))

InitKeyword ==
    /\ pc = "call"
    /\ keyword_list \in TextLists(MaxKeywords, MaxInputChars)
    /\ papers \in {[k \in DOMAIN abstracts |-> [id |-> k, summary |-> abstracts[k]]] :
           abstracts \in TextLists(MaxFilterPapers, MaxInputChars - Chars(keyword_list))}
    /\ results = <<>>
    /\ idx = 0
    /\ IdleCalls
    /\ IdleStore
    /\ IdlePush

CallKeyword ==
    /\ pc = "call"
    /\ results' = filter_papers_by_keyword(papers, keyword_list)
    /\ pc' = "returned"
    /\ UNCHANGED <<papers, keyword_list, idx, callVars, storeVars, pushVars>>

NextKeyword == CallKeyword

SpecKeyword == InitKeyword /\ [][NextKeyword]_vars

\* t is a whitespace-delimited token of s: a non-empty piece of s without
\* whitespace, with whitespace or an end of s on either side.
IsToken(t, s) ==
    /\ t # <<>>
    /\ \A k \in DOMAIN t : t[k] \notin Whitespace
    /\ \E i \in 1..Len(s) :
           LET j == i + Len(t) - 1
           IN  /\ j <= Len(s)
               /\ SubSeq(s, i, j) = t
               /\ i = 1 \/ s[i - 1] \in Whitespace
               /\ j = Len(s) \/ s[j + 1] \in Whitespace

KeywordMatches(paper, kws) ==
    \E k \in DOMAIN kws : IsToken(lower(kws[k]), lower(paper.summary))

\* C2: filter_papers_by_keyword returns, in order, exactly the papers one of
\* whose lowercased whitespace-delimited summary tokens is a lowercased
\* keyword (whole token, not substring); with no keyword, nothing.
C2_KeywordFilterWholeTokens ==
    pc = "returned" =>
        /\ results = SelectSeq(papers, LAMBDA paper : KeywordMatches(paper, keyword_list))
        /\ keyword_list = <<>> => results = <<>>

\* Dropped: a summary that holds the keyword inside a longer token.  Kept: a
\* token that differs from the keyword in case only.
C2_Witness ==
    /\ pc = "returned"
    /\ keyword_list = <<<<"A">>>>
    /\ Len(papers) = 2
    /\ papers[1].summary = <<"a", "a">>
    /\ papers[2].summary = <<"a">>
    /\ results = <<papers[2]>>

-----------------------------------------------------------------------------
(* filter_papers_using_llm.  One step is one turn of its loop.  llm.py is  *)
(* not part of the sources: is_paper_match answers true or false, or fails *)
(* by raising.                                                             *)

MaxLlmPapers == 3

MatchReplies == {"true", "false", "raise"}

InitRelevance ==
    /\ pc = "llm_loop"
    /\ papers \in SeqsUpTo(PaperPool, MaxLlmPapers)
    /\ keyword_list = <<>>
    /\ results = <<>>
    /\ idx = 1
    /\ IdleCalls
    /\ IdleStore
    /\ IdlePush

\* lines 60-62: is_paper_match(paper, ...) and the append; nothing in the
\* function catches what the call raises
LlmIterate ==
    /\ pc = "llm_loop"
    /\ idx <= Len(papers)
    /\ \E reply \in MatchReplies :
        /\ replies' = Append(replies, reply)
        /\ IF reply = "raise"
           THEN /\ pc' = "raised"
                /\ error' = "is_paper_match"
                /\ results' = None
                /\ idx' = idx
           ELSE /\ pc' = pc
                /\ error' = error
                /\ results' = IF reply = "true" THEN Append(results, papers[idx])
                                                ELSE results
                /\ idx' = idx + 1
    /\ UNCHANGED <<papers, keyword_list, storeVars, pushVars>>

\* line 63
LlmReturn ==
    /\ pc = "llm_loop"
    /\ idx > Len(papers)
    /\ pc' = "returned"
    /\ UNCHANGED <<papers, keyword_list, results, idx, callVars, storeVars, pushVars>>

NextRelevance == LlmIterate \/ LlmReturn

SpecRelevance == InitRelevance /\ [][NextRelevance]_vars

\* C3: a match call that fails for one paper does not abort the filter: the
\* paper counts as a non-match, the papers after it are still classified,
\* and the filter returns, in order, the papers whose call answered true.
C3_FailedMatchIsSkipped ==
    /\ pc # "raised"
    /\ pc = "returned" =>
           /\ Len(replies) = Len(papers)
           /\ results = SubseqAt(papers, {k \in DOMAIN papers : replies[k] = "true"})

-----------------------------------------------------------------------------
(* translate_abstracts.  One step is one turn of its loop.  translate_abstract *)
(* (llm.py) answers a text, an empty text or None, or fails by raising.    *)

MaxTranslatePapers == 3

Translation == "zh"

TranslateReplies == {Translation, "", None, "raise"}

\* paper["zh_summary"] = v
WithZhSummary(paper, v) ==
    [f \in DOMAIN paper \cup {"zh_summary"} |->
        IF f = "zh_summary" THEN v ELSE paper[f]]

\* `if zh_abstract:`
Truthy(v) == v # "" /\ v # None

InitTranslate ==
    /\ pc = "translate_loop"
    /\ papers \in SeqsUpTo(PaperPool, MaxTranslatePapers)
    /\ keyword_list = <<>>
    /\ results = <<>>
    /\ idx = 1
    /\ IdleCalls
    /\ IdleStore
    /\ IdlePush

\* lines 113-118: the call comes first; the field is set after it returned
TranslateIterate ==
    /\ pc = "translate_loop"
    /\ idx <= Len(papers)
    /\ \E reply \in TranslateReplies :
        /\ replies' = Append(replies, reply)
        /\ IF reply = "raise"
           THEN /\ pc' = "raised"
                /\ error' = "translate_abstract"
                /\ papers' = papers
                /\ idx' = idx
           ELSE /\ pc' = pc
                /\ error' = error
                /\ papers' = [papers EXCEPT ![idx] =
                       WithZhSummary(@, IF Truthy(reply) THEN reply ELSE None)]
                /\ idx' = idx + 1
    /\ UNCHANGED <<keyword_list, results, storeVars, pushVars>>

\* line 119
TranslateReturn ==
    /\ pc = "translate_loop"
    /\ idx > Len(papers)
    /\ pc' = "returned"
    /\ results' = papers
    /\ UNCHANGED <<papers, keyword_list, idx, callVars, storeVars, pushVars>>

NextTranslate == TranslateIterate \/ TranslateReturn

SpecTranslate == InitTranslate /\ [][NextTranslate]_vars

HasZhSummary(paper) == "zh_summary" \in DOMAIN paper

\* C4: once translate_abstracts is through with a list (it returned, or a
\* translation call failed), every paper of the list has zh_summary: the
\* translation when the call answered a non-empty text, None when the call
\* raised or answered an empty or falsy value; a failing call neither leaves
\* its paper without the field nor stops the papers after it.
C4_EveryPaperGetsZhSummary ==
    /\ pc # "raised"
    /\ pc \in {"returned", "raised"} =>
           \A k \in DOMAIN papers :
               /\ HasZhSummary(papers[k])
               /\ k <= Len(replies)
               /\ papers[k].zh_summary =
                      IF Truthy(replies[k]) /\ replies[k] # "raise"
                      THEN replies[k] ELSE None

\* What the code does keep: when every call returns, an empty or falsy
\* answer leaves None in the field.
C4_FalsyAnswerLeavesNone ==
    pc = "returned" =>
        \A k \in DOMAIN papers :
            /\ HasZhSummary(papers[k])
            /\ papers[k].zh_summary = IF Truthy(replies[k]) THEN replies[k] ELSE None

-----------------------------------------------------------------------------
(* The record store file.  Its text is a sequence of tokens: the brackets  *)
(* and commas of a JSON array, line breaks, and one token per object.      *)

MaxStored == 2
MaxBatch == 2
MaxCandidates == 2

Punct(c) == [t |-> c]
Obj(paper) == [t |-> "object", v |-> paper]
NL == Punct("\n")

\* json.dump(entries, f, indent=4): "[]" for the empty list, else one entry
\* per line between the brackets
RECURSIVE DumpItems(_)
DumpItems(entries) ==
    IF Len(entries) = 1 THEN <<NL, Obj(entries[1]), NL>>
    ELSE <<NL, Obj(entries[1]), Punct(",")>> \o DumpItems(Tail(entries))

json_dump(entries) ==
    IF entries = <<>> THEN <<Punct("["), Punct("]")>>
    ELSE <<Punct("[")>> \o DumpItems(entries) \o <<Punct("]")>>

StripWhitespace(text) == SelectSeq(text, LAMBDA tok : tok.t # "\n")

\* value ("," value)* up to the closing bracket: the values, if that is
\* what the tokens are
RECURSIVE ParseItems(_, _)
ParseItems(toks, acc) ==
    IF Len(toks) < 2 \/ toks[1].t # "object" THEN [ok |-> FALSE]
    ELSE IF toks[2].t = "]"
         THEN IF Len(toks) = 2 THEN [ok |-> TRUE, v |-> Append(acc, toks[1].v)]
                               ELSE [ok |-> FALSE]
         ELSE IF toks[2].t = ","
              THEN ParseItems(SubSeq(toks, 3, Len(toks)), Append(acc, toks[1].v))
              ELSE [ok |-> FALSE]

\* json.loads(text), strictly: an array of objects, one object, or
\* JSONDecodeError
StrictLoads(text) ==
    LET toks == StripWhitespace(text)
    IN  IF Len(toks) = 1 /\ toks[1].t = "object"
        THEN [kind |-> "object", value |-> toks[1].v]
        ELSE IF Len(toks) = 2 /\ toks[1].t = "[" /\ toks[2].t = "]"
        THEN [kind |-> "array", value |-> <<>>]
        ELSE IF Len(toks) >= 2 /\ toks[1].t = "["
        THEN LET items == ParseItems(Tail(toks), <<>>)
             IN  IF items.ok THEN [kind |-> "array", value |-> items.v]
                 ELSE [kind |-> "error"]
        ELSE [kind |-> "error"]

\* A bug: text that does not parse reads as the empty array.
LenientLoads(text) ==
    IF StrictLoads(text).kind = "error" THEN [kind |-> "array", value |-> <<>>]
    ELSE StrictLoads(text)

json_loads(text) == StrictLoads(text)

FileWith(text) == [exists |-> TRUE, text |-> text]

EmptyFile == FileWith(<<>>)

\* A bug: candidates are never compared with the store.
DeduplicateIgnoresStore(ps, file) ==
    [raised |-> FALSE, error |-> None, value |-> ps, content |-> <<>>]

\* deduplicate_papers(papers, file_path), lines 73-83: what it returns or
\* raises, and the entries it read
deduplicate_papers(ps, file) ==
    IF file.exists /\ file.text # <<>>
    THEN LET parsed == json_loads(file.text)
         IN  IF parsed.kind = "error"
             THEN [raised |-> TRUE, error |-> "JSONDecodeError", value |-> None,
                   content |-> None]
             ELSE IF parsed.kind = "object"
             \* `for d in content` walks the keys of the dict, and d['id'] of
             \* a key, a string, is a TypeError
             THEN [raised |-> TRUE, error |-> "TypeError", value |-> None,
                   content |-> None]
             ELSE LET content_id == {parsed.value[k].id : k \in DOMAIN parsed.value}
                  IN  [raised |-> FALSE, error |-> None,
                       value |-> SelectSeq(ps, LAMBDA d : d.id \notin content_id),
                       content |-> parsed.value]
    ELSE [raised |-> FALSE, error |-> None, value |-> ps, content |-> <<>>]

\* A bug: the new entries go after the stored ones.
AppendToJsonFile(file, d) ==
    LET old == IF file.exists /\ file.text # <<>>
               THEN json_loads(file.text) ELSE [kind |-> "array", value |-> <<>>]
    IN  IF old.kind = "array"
        THEN [raised |-> FALSE, error |-> None,
              file |-> FileWith(json_dump(old.value \o d)), content |-> old.value]
        ELSE [raised |-> TRUE, error |-> "JSONDecodeError", file |-> file,
              content |-> None]

\* prepend_to_json_file(file_path, data), lines 92-103: whether it raises,
\* the file it leaves and the entries it read.  open(file_path, 'w') empties
\* the file before `data + content` is computed.
prepend_to_json_file(file, d) ==
    LET old == IF file.exists /\ file.text # <<>>
               THEN json_loads(file.text) ELSE [kind |-> "array", value |-> <<>>]
    IN  IF old.kind = "error"
        THEN [raised |-> TRUE, error |-> "JSONDecodeError", file |-> file,
              content |-> None]
        ELSE IF old.kind = "object"
        THEN [raised |-> TRUE, error |-> "TypeError", file |-> EmptyFile,
              content |-> None]
        ELSE [raised |-> FALSE, error |-> None,
              file |-> FileWith(json_dump(d \o old.value)), content |-> old.value]

-----------------------------------------------------------------------------
(* The two store functions, called in any order with any arguments on any  *)
(* store file.  A call is one step; the step after it starts the next call. *)

\* Texts that are not JSON: a dump cut short, a dump with a bracket too
\* many, a line break alone.
MalformedTexts ==
    LET dumps == {json_dump(es) : es \in SeqsUpTo(PaperPool, 1)}
    IN  UNION {{SubSeq(d, 1, n) : n \in 1..(Len(d) - 1)} : d \in dumps}
        \cup {d \o <<Punct("]")>> : d \in dumps}
        \cup {<<NL>>}

\* A store that is a JSON array is what prepend_to_json_file makes of a
\* missing or an empty one.
InitialStores ==
    {NoFile, EmptyFile}
    \cup {FileWith(<<Obj(paper)>>) : paper \in PaperPool}
    \cup {FileWith(t) : t \in MalformedTexts}

InitStore ==
    /\ pc = "idle"
    /\ papers = <<>>
    /\ keyword_list = <<>>
    /\ results = <<>>
    /\ idx = 0
    /\ IdleCalls
    /\ store \in InitialStores
    /\ store0 = store
    /\ data = <<>>
    /\ content = <<>>
    /\ written = <<>>
    /\ IdlePush

CallDeduplicate ==
    /\ pc = "idle"
    /\ \E ps \in SeqsUpTo(PaperPool, MaxCandidates) :
        LET r == deduplicate_papers(ps, store)
        IN  /\ papers' = ps
            /\ results' = r.value
            /\ error' = r.error
            /\ content' = r.content
            /\ pc' = IF r.raised THEN "dedup_raised" ELSE "dedup_returned"
    /\ UNCHANGED <<keyword_list, idx, replies, store, store0, data, written, pushVars>>

\* The guard keeps the store within MaxStored entries.
CallPrepend ==
    /\ pc = "idle"
    /\ \E d \in SeqsUpTo(PaperPool, MaxBatch) :
        LET r == prepend_to_json_file(store, d)
        IN  /\ ~r.raised => Len(r.content) + Len(d) <= MaxStored
            /\ data' = d
            /\ store' = r.file
            /\ error' = r.error
            /\ content' = r.content
            /\ written' = IF r.raised THEN written ELSE d \o written
            /\ pc' = IF r.raised THEN "prepend_raised" ELSE "prepend_returned"
    /\ results' = None
    /\ UNCHANGED <<papers, keyword_list, idx, replies, store0, pushVars>>

NextCall ==
    /\ pc \in {"dedup_returned", "dedup_raised", "prepend_returned", "prepend_raised"}
    /\ pc' = "idle"
    /\ papers' = <<>>
    /\ results' = <<>>
    /\ data' = <<>>
    /\ content' = <<>>
    /\ error' = None
    /\ UNCHANGED <<keyword_list, idx, replies, store, store0, written, pushVars>>

NextStore == CallDeduplicate \/ CallPrepend \/ NextCall

SpecStore == InitStore /\ [][NextStore]_vars

\* The text is a JSON array of objects: brackets around objects that commas
\* separate, line breaks aside.
IsJsonArray(text) ==
    LET toks == StripWhitespace(text)
        n == Len(toks)
    IN  /\ n >= 2
        /\ toks[1].t = "["
        /\ toks[n].t = "]"
        /\ n = 2 \/ n % 2 = 1
        /\ \A k \in 2..(n - 1) : toks[k].t = IF k % 2 = 0 THEN "object" ELSE ","

IsJsonObject(text) ==
    LET toks == StripWhitespace(text)
    IN  Len(toks) = 1 /\ toks[1].t = "object"

\* The store has no entries (no file, or an empty one) or is a JSON array.
Readable(file) == ~file.exists \/ file.text = <<>> \/ IsJsonArray(file.text)

\* The file exists, is not empty and is not JSON.
Malformed(file) ==
    /\ file.exists
    /\ file.text # <<>>
    /\ ~IsJsonArray(file.text)
    /\ ~IsJsonObject(file.text)

\* The entries of a readable store.
StoredEntries(file) ==
    IF ~file.exists \/ file.text = <<>> THEN <<>>
    ELSE LET toks == StripWhitespace(file.text)
         IN  [k \in 1..((Len(toks) - 1) \div 2) |-> toks[2 * k].v]

IdsOf(ps) == {ps[k].id : k \in DOMAIN ps}

\* C5: on a store that was missing or empty at first, after the calls
\* prepend_to_json_file(B1), ..., prepend_to_json_file(Bn) the store holds
\* Bn ++ ... ++ B1: a call puts its batch before the stored entries, keeps
\* the order of both, and leaves the stored entries as they were.
C5_StoreIsBatchesNewestFirst ==
    store0 \in {NoFile, EmptyFile} =>
        /\ Readable(store)
        /\ StoredEntries(store) = written
        /\ pc = "prepend_returned" =>
               /\ store.exists
               /\ IsJsonArray(store.text)
               /\ Len(written) >= Len(data)
               /\ SubSeq(written, 1, Len(data)) = data

\* A second batch has been put before a first one, which holds another
\* paper with the same id.
C5_Witness ==
    /\ store0 = NoFile
    /\ pc = "prepend_returned"
    /\ Len(data) = 1
    /\ Len(StoredEntries(store)) = 2
    /\ StoredEntries(store)[1] = data[1]
    /\ StoredEntries(store)[2].id = data[1].id
    /\ StoredEntries(store)[2] # data[1]

\* C6: deduplicate_papers returns, in order, the candidates whose id is the
\* id of no entry of the store (no file and an empty file: no entries, every
\* candidate is returned, no error), and leaves the store file as it is.
C6_DeduplicateAgainstStore ==
    [][(pc = "idle" /\ pc' \in {"dedup_returned", "dedup_raised"}) =>
          /\ store' = store
          /\ Readable(store) =>
                 /\ pc' = "dedup_returned"
                 /\ results' = SubseqAt(papers',
                        {k \in DOMAIN papers' :
                            papers'[k].id \notin IdsOf(StoredEntries(store))})]_vars

\* A candidate is dropped for its id though its stored entry differs from
\* it, and the candidate after it is kept.
C6_Witness ==
    /\ pc = "dedup_returned"
    /\ Len(papers) = 2
    /\ results = <<papers[2]>>
    /\ papers[1] \notin ToSet(StoredEntries(store))
    /\ store.exists

\* C7: on a store file that exists, is not empty and is not JSON, both
\* deduplicate_papers and prepend_to_json_file fail with the parse error:
\* nothing is returned, nothing is written, the file is as before.
C7_MalformedStoreIsFatal ==
    [][(pc = "idle" /\ pc' # "idle" /\ Malformed(store)) =>
          /\ pc' \in {"dedup_raised", "prepend_raised"}
          /\ error' = "JSONDecodeError"
          /\ results' = None
          /\ store' = store]_vars

\* prepend_to_json_file has failed on a dump that was cut short.
C7_Witness ==
    /\ pc = "prepend_raised"
    /\ error = "JSONDecodeError"
    /\ Malformed(store)
    /\ Len(store.text) = 3
    /\ store = store0

-----------------------------------------------------------------------------
(* push_results_to_lark_table and what it calls (lark_table.py).  The URL  *)
(* is what urlparse makes of it: the segments of its path (the path split  *)
(* at "/") and the value of its `table` query parameter.                   *)

Url(path, table) == [set |-> TRUE, path |-> path, table |-> table]

\* /base/app?table=tbl, /base/app, /base/?table=tbl, /wiki/node?table=tbl,
\* /wiki/node, and no URL at all
UrlPool ==
    {Url(<<"", "base", "app">>, "tbl"), Url(<<"", "base", "app">>, None),
     Url(<<"", "base", "">>, "tbl"), Url(<<"", "wiki", "node">>, "tbl"),
     Url(<<"", "wiki", "node">>, None), UnsetUrl}

\* get_wiki_node_info, lines 65-89: it raises (the request fails, the
\* service answers an error code or no node), or returns the node, whose
\* obj_token may be missing or empty
WikiReplies ==
    {[raised |-> TRUE, has_obj |-> FALSE, obj_token |-> None],
     [raised |-> FALSE, has_obj |-> FALSE, obj_token |-> None],
     [raised |-> FALSE, has_obj |-> TRUE, obj_token |-> "obj"],
     [raised |-> FALSE, has_obj |-> TRUE, obj_token |-> ""]}

\* `"/wiki/" in pathname`: a segment "wiki" with a "/" on either side
IsWikiPath(path) == \E k \in 2..(Len(path) - 1) : path[k] = "wiki"

\* parse_base_url, lines 103-119, with the answer of get_wiki_node_info
\* should it be called.  urlparse(None) has a bytes path, and
\* `"/wiki/" in pathname` then raises TypeError.
parse_base_url(url, wiki) ==
    IF ~url.set THEN [raised |-> TRUE, app_token |-> None, table_id |-> None]
    ELSE LET pathname == url.path
             app_token == pathname[Len(pathname)]
         IN  IF IsWikiPath(pathname)
             THEN IF wiki.raised
                  THEN [raised |-> TRUE, app_token |-> None, table_id |-> None]
                  ELSE [raised |-> FALSE,
                        app_token |-> IF wiki.has_obj THEN wiki.obj_token ELSE app_token,
                        table_id |-> url.table]
             ELSE [raised |-> FALSE, app_token |-> app_token, table_id |-> url.table]

\* `not x` for a token or an id
Falsy(x) == x = "" \/ x = None

\* fields_data, lines 180-188, but for "Date", the clock's time
FieldsOf(paper) ==
    [Title |-> paper.title,
     Link |-> [text |-> paper.pdf, link |-> paper.pdf],
     Summary |-> IF "zh_summary" \in DOMAIN paper THEN paper.zh_summary ELSE None]

\* exit(1): SystemExit is no Exception, so the `except Exception` of line
\* 207 does not catch the exits of lines 202 and 205
Exit(status, why) ==
    /\ pc' = "exited"
    /\ exit_status' = status
    /\ error' = why

\* lines 175-178: the environment is read, the loop starts
PushEnter ==
    /\ pc = "push"
    /\ base_url' \in UrlPool
    /\ idx' = 1
    /\ pc' = "push_token"
    /\ UNCHANGED <<papers, keyword_list, results, callVars, storeVars, dest, rows,
                   create_calls, exit_status>>

\* lines 190-193: get_tenant_access_token returns the token or an error
PushToken ==
    /\ pc = "push_token"
    /\ idx <= Len(papers)
    /\ \E ok \in BOOLEAN :
        IF ok THEN pc' = "push_resolve" /\ UNCHANGED <<exit_status, error>>
              ELSE Exit(1, "token")
    /\ UNCHANGED <<papers, keyword_list, results, idx, replies, storeVars, base_url,
                   dest, rows, create_calls>>

\* lines 195-209
PushResolve ==
    /\ pc = "push_resolve"
    /\ \E wiki \in WikiReplies :
        LET bitable_info == parse_base_url(base_url, wiki)
        IN  IF bitable_info.raised \/ Falsy(bitable_info.app_token)
               \/ Falsy(bitable_info.table_id)
            THEN Exit(1, "resolve") /\ dest' = dest
            ELSE /\ dest' = [app_token |-> bitable_info.app_token,
                             table_id |-> bitable_info.table_id]
                 /\ pc' = "push_create"
                 /\ UNCHANGED <<exit_status, error>>
    /\ UNCHANGED <<papers, keyword_list, results, idx, replies, storeVars, base_url,
                   rows, create_calls>>

\* A bug: a failed record creation is logged and the loop goes on.
PushCreateGoesOn ==
    /\ pc = "push_create"
    /\ create_calls' = Append(create_calls, FieldsOf(papers[idx]))
    /\ \E ok \in BOOLEAN :
        rows' = IF ok THEN Append(rows, FieldsOf(papers[idx])) ELSE rows
    /\ idx' = idx + 1
    /\ pc' = "push_token"
    /\ UNCHANGED <<papers, keyword_list, results, callVars, storeVars, base_url, dest,
                   exit_status>>

\* lines 211-220: one request; the service creates the row, or the request
\* or its answer is an error
PushCreate ==
    /\ pc = "push_create"
    /\ create_calls' = Append(create_calls, FieldsOf(papers[idx]))
    /\ \E ok \in BOOLEAN :
        IF ok
        THEN /\ rows' = Append(rows, FieldsOf(papers[idx]))
             /\ idx' = idx + 1
             /\ pc' = "push_token"
             /\ UNCHANGED <<exit_status, error>>
        ELSE /\ Exit(1, "create")
             /\ UNCHANGED <<rows, idx>>
    /\ UNCHANGED <<papers, keyword_list, results, replies, storeVars, base_url, dest>>

\* line 221, and the process ends
PushDone ==
    /\ pc = "push_token"
    /\ idx > Len(papers)
    /\ pc' = "completed"
    /\ exit_status' = 0
    /\ UNCHANGED <<papers, keyword_list, results, idx, callVars, storeVars, base_url,
                   dest, rows, create_calls>>

-----------------------------------------------------------------------------
(* A run of the pipeline, and the runs after it.  The driver is not part   *)
(* of the sources; its order of steps is the specification's: fetch, the   *)
(* deduplication across categories, the deduplication against the store,   *)
(* the prepend, the hand-off.                                              *)

MaxFetched == 3

\* The papers as fetched, with the fields the hand-off reads.
FetchedPool ==
    {[id |-> p.id, summary |-> p.summary, title |-> <<"title", p.id>>,
      pdf |-> <<"pdf", p.id>>] : p \in PaperPool}

InitPipeline ==
    /\ pc = "fetch"
    /\ papers = <<>>
    /\ keyword_list = <<>>
    /\ results = <<>>
    /\ idx = 0
    /\ IdleCalls
    /\ store \in {NoFile, EmptyFile, FileWith(<<Punct("[")>>)}
    /\ store0 = store
    /\ data = <<>>
    /\ content = <<>>
    /\ written = <<>>
    /\ IdlePush

StepFetch ==
    /\ pc = "fetch"
    /\ papers' \in SeqsUpTo(FetchedPool, MaxFetched)
    /\ pc' = "dedup_categories"
    /\ UNCHANGED <<keyword_list, results, idx, callVars, storeVars, pushVars>>

StepDedupCategories ==
    /\ pc = "dedup_categories"
    /\ papers' = deduplicate_papers_across_categories(papers)
    /\ pc' = "dedup_store"
    /\ UNCHANGED <<keyword_list, results, idx, callVars, storeVars, pushVars>>

StepDedupStore ==
    /\ pc = "dedup_store"
    /\ LET r == deduplicate_papers(papers, store)
       IN  IF r.raised
           THEN Exit(1, r.error) /\ UNCHANGED <<papers, content>>
           ELSE /\ papers' = r.value
                /\ content' = r.content
                /\ pc' = "persist"
                /\ UNCHANGED <<exit_status, error>>
    /\ UNCHANGED <<keyword_list, results, idx, replies, store, store0, data, written,
                   base_url, dest, rows, create_calls>>

StepPersist ==
    /\ pc = "persist"
    /\ LET r == prepend_to_json_file(store, papers)
       IN  /\ store' = r.file
           /\ data' = papers
           /\ IF r.raised
              THEN Exit(1, r.error) /\ UNCHANGED <<content, written>>
              ELSE /\ content' = r.content
                   /\ written' = papers \o written
                   /\ pc' = "push"
                   /\ UNCHANGED <<exit_status, error>>
    /\ UNCHANGED <<papers, keyword_list, results, idx, replies, store0, base_url, dest,
                   rows, create_calls>>

\* The next invocation: a new process, the same store file.
NextRun ==
    /\ pc \in {"completed", "exited"}
    /\ pc' = "fetch"
    /\ papers' = <<>>
    /\ idx' = 0
    /\ error' = None
    /\ data' = <<>>
    /\ content' = <<>>
    /\ base_url' = UnsetUrl
    /\ dest' = NoDest
    /\ rows' = <<>>
    /\ create_calls' = <<>>
    /\ exit_status' = -1
    /\ UNCHANGED <<keyword_list, results, replies, store, store0, written>>

NextPipeline ==
    \/ StepFetch
    \/ StepDedupCategories
    \/ StepDedupStore
    \/ StepPersist
    \/ PushEnter
    \/ PushToken
    \/ PushResolve
    \/ PushCreate
    \/ PushDone
    \/ NextRun

SpecPipeline == InitPipeline /\ [][NextPipeline]_vars

InPush == pc \in {"push_token", "push_resolve", "push_create"}

PushFailed == pc = "exited" /\ error \in {"token", "resolve", "create"}

Distinct(ps) == \A j, k \in DOMAIN ps : ps[j].id = ps[k].id => j = k

\* C8: push_results_to_lark_table takes the papers one at a time, in order,
\* with one record-creation request per paper.  At the first paper whose
\* token, destination or record creation fails the run exits with status 1:
\* no request is made for a later paper, the rows of the earlier papers stay,
\* and the store keeps the entries that were prepended.  With no failure
\* there is one row per paper when the run completes.
C8_PushStopsAtFirstFailure ==
    (InPush \/ PushFailed \/ pc = "completed") =>
        /\ Len(create_calls) <= Len(papers)
        /\ create_calls = [k \in 1..Len(create_calls) |-> FieldsOf(papers[k])]
        /\ rows = [k \in 1..(idx - 1) |-> FieldsOf(papers[k])]
        /\ Readable(store)
        /\ Len(StoredEntries(store)) >= Len(papers)
        /\ SubSeq(StoredEntries(store), 1, Len(papers)) = papers
        /\ InPush => exit_status = -1 /\ Len(create_calls) = idx - 1
        /\ PushFailed =>
               /\ exit_status = 1
               /\ idx <= Len(papers)
               /\ Len(create_calls) = IF error = "create" THEN idx ELSE idx - 1
        /\ pc = "completed" =>
               /\ exit_status = 0
               /\ Len(rows) = Len(papers)
               /\ Len(create_calls) = Len(papers)

\* The second paper's record creation has failed: one row, two requests,
\* both papers in the store.
C8_Witness ==
    /\ pc = "exited"
    /\ error = "create"
    /\ exit_status = 1
    /\ Len(papers) = 2
    /\ idx = 2
    /\ Len(rows) = 1
    /\ Len(create_calls) = 2
    /\ Len(StoredEntries(store)) = 2

\* C9: a run that ends with a destination resolution failure (parse_base_url
\* raises, or gives no app_token or no table_id) has made no record-creation
\* request, however many papers were accepted.
C9_NoRecordBeforeResolutionFailure ==
    (pc = "exited" /\ error = "resolve") => create_calls = <<>>

\* What the code does keep: the paper whose resolution failed, and the
\* papers after it, get no request.
C9_NoRecordFromFailingPaperOn ==
    (pc = "exited" /\ error = "resolve") => Len(create_calls) = idx - 1

\* C10: from a missing or empty store, after any number of runs (the
\* deduplication across categories, the deduplication against the store,
\* the prepend) no two entries of the store have one id; the list a run
\* prepends has distinct ids, none of them the id of a stored entry.
C10_StoreIdsDistinct ==
    store0 \in {NoFile, EmptyFile} =>
        /\ Readable(store)
        /\ Distinct(StoredEntries(store))
        /\ pc = "persist" =>
               /\ Distinct(papers)
               /\ IdsOf(papers) \cap IdsOf(StoredEntries(store)) = {}

\* A second run has prepended the one paper it kept to the one entry of the
\* store.
C10_Witness ==
    /\ store0 = NoFile
    /\ pc = "push"
    /\ Len(data) = 1
    /\ Len(content) = 1
    /\ StoredEntries(store) = data \o content

=============================================================================
